---- MODULE Spec2Model ----
(***************************************************************************)
(* django-threadedcomments, threadedcomments/models.py.                    *)
(*                                                                         *)
(* The comment table, the two managers (objects, public), the tree         *)
(* assembly get_tree/dfs, the visibility filter of the public manager and  *)
(* the write path save().  ThreadedComment and FreeThreadedComment carry   *)
(* the same hierarchy, flag, markup and date fields and the same save();   *)
(* one table models either of them.                                        *)
(*                                                                         *)
(* Framework behaviour the code relies on (Django's ORM):                  *)
(*   - a queryset is the table's rows in Meta.ordering (date_submitted),   *)
(*     which is the order of insertion, narrowed by each filter();         *)
(*   - subnode.parent is None when the parent column is NULL and the       *)
(*     referenced row otherwise, whose id is the parent column;            *)
(*   - Model.save() writes every field of the instance to its row, and     *)
(*     inserts the row when the instance has no primary key yet;           *)
(*   - get() returns the single selected row and raises DoesNotExist or    *)
(*     MultipleObjectsReturned for zero or several.                        *)
(***************************************************************************)
EXTENDS Integers, Sequences, FiniteSets, TLC

\* ------------------------------------------------------------------ bounds
MaxComments == 4        \* rows of the table when whole trees are compared
MaxPublicComments == 3  \* rows of the table when comments may be hidden
MaxWalkComments == 3    \* rows of the table when dfs is followed step by step
MaxQueryComments == 3   \* rows of the table when queries are filtered
MaxTime == 3            \* readings of datetime.now()
RecursionLimit == 6     \* frames of dfs the interpreter allows

\* --------------------------------------------------------------- constants
MARKDOWN == 1
TEXTILE == 2
REST == 3
PLAINTEXT == 5
HTML == 4               \* the choice the source keeps commented out
MARKUP_CHOICES == {MARKDOWN, TEXTILE, REST, PLAINTEXT}

\* None for a primary key, a parent reference or a date; None for markup.
None == 0
MarkupNone == 0 - 1

\* Content objects.  get_tree tells the owner it is called for from any other
\* one, and nothing else about owners: two of them show every case.
Owners == {1, 2}
Managers == {"objects", "public"}

VARIABLES
    comments,    \* the table: comments[k] is the row with primary key k
    now,         \* the reading datetime.now() returns next
    loc,         \* loc[w]: the model instance writer w holds in memory
    pc,          \* get_tree in steps: "idle", "running", "done", "error"
    children,    \* get_tree's local list of fetched instances
    idx,         \* position of get_tree's loop over children
    stack,       \* the frames of dfs, innermost last
    to_return,   \* get_tree's local to_return
    depthAttr,   \* the depth attribute dfs annotates, per primary key
    result       \* what the last completed manager call returned

vars == <<comments, now, loc, pc, children, idx, stack, to_return, depthAttr, result>>

treeVars == <<pc, children, idx, stack, to_return, depthAttr>>

NoResult == [op |-> "none"]
Writers == {1, 2}
\* A writer that holds no instance.
NoInstance == [id |-> 0 - 1]

\* ---------------------------------------------------------------- helpers
Range(s) == {s[k] : k \in 1..Len(s)}

NoDuplicates(s) == \A a, b \in 1..Len(s) : s[a] = s[b] => a = b

Ids(tree) == [k \in 1..Len(tree) |-> tree[k].id]

\* ------------------------------------------------------------- write path
\* `not self.markup`: None and 0 are the falsy values of the integer field.
Falsy(markup) == markup = MarkupNone \/ markup = 0

\* save, stamping whenever the instance is approved.
save_AlwaysStamp(self, t) ==
    LET m == IF Falsy(self.markup) THEN PLAINTEXT ELSE self.markup
        a == IF self.is_approved THEN t ELSE self.date_approved
    IN [self EXCEPT !.markup = m, !.date_modified = t, !.date_approved = a]

\* save, leaving markup as it is.
save_KeepFalsy(self, t) ==
    LET a == IF self.date_approved = None /\ self.is_approved THEN t
             ELSE self.date_approved
    IN [self EXCEPT !.date_modified = t, !.date_approved = a]

\* save, dropping the stamp of an instance that is not approved.
save_ClearWhenUnapproved(self, t) ==
    LET m == IF Falsy(self.markup) THEN PLAINTEXT ELSE self.markup
        a == IF ~self.is_approved THEN None
             ELSE IF self.date_approved = None THEN t ELSE self.date_approved
    IN [self EXCEPT !.markup = m, !.date_modified = t, !.date_approved = a]

\* ThreadedComment.save / FreeThreadedComment.save, up to the call of the
\* framework's save: the instance as normalised at time t.
save(self, t) ==
    LET m == IF Falsy(self.markup) THEN PLAINTEXT ELSE self.markup
        a == IF self.date_approved = None /\ self.is_approved THEN t
             ELSE self.date_approved
    IN [self EXCEPT !.markup = m, !.date_modified = t, !.date_approved = a]

\* super().save(): insert (the next primary key) or update of the whole row.
Persist(table, inst) ==
    IF inst.id = None
    THEN Append(table, [inst EXCEPT !.id = Len(table) + 1])
    ELSE [table EXCEPT ![inst.id] = inst]

\* The instance a constructor call builds: field defaults of the model.
NewInstance(owner, parent, is_public, is_approved, markup) ==
    [id |-> None, object_id |-> owner, parent |-> parent,
     is_public |-> is_public, is_approved |-> is_approved, markup |-> markup,
     date_approved |-> None, date_modified |-> now]

\* The name get_base_data resolves for a stored markup value.
MarkupName(markup) ==
    IF markup = MARKDOWN THEN "markdown"
    ELSE IF markup = TEXTILE THEN "textile"
    ELSE IF markup = REST THEN "restructuredtext"
    ELSE "plaintext"

\* ---------------------------------------------------------------- queries
\* Q(is_public = True) | Q(is_approved = True)
PublicFilter(row) == row.is_public \/ row.is_approved

\* The public manager as its docstring words it: is_public = True alone.
get_query_set_PublicOnly(mgr) ==
    IF mgr = "public" THEN SelectSeq(comments, LAMBDA row : row.is_public)
    ELSE comments

\* The public manager without its filter.
get_query_set_Unfiltered(mgr) == comments

\* Manager.get_query_set and PublicThreadedCommentManager.get_query_set.
get_query_set(mgr) ==
    IF mgr = "public" THEN SelectSeq(comments, PublicFilter) ELSE comments

\* One keyword of a filter: "any" when the caller does not give it.
FlagMatches(kw, value) == kw = "any" \/ (kw = "true") = value

Matches(row, kwargs) ==
    /\ kwargs.object_id \in {None, row.object_id}
    /\ FlagMatches(kwargs.is_public, row.is_public)
    /\ FlagMatches(kwargs.is_approved, row.is_approved)

\* QuerySet.filter(**kwargs)
filter(qs, kwargs) == SelectSeq(qs, LAMBDA row : Matches(row, kwargs))

\* _generate_object_kwarg_dict: the owner's key replaces the caller's.
generate_object_kwarg_dict(owner, kwargs) == [kwargs EXCEPT !.object_id = owner]

\* Manager.get(**kwargs) on the manager's queryset.
get(mgr, kwargs) ==
    LET rows == filter(get_query_set(mgr), kwargs)
    IN IF Len(rows) = 1 THEN [status |-> "ok", obj |-> rows[1].id]
       ELSE IF Len(rows) = 0 THEN [status |-> "DoesNotExist", obj |-> None]
       ELSE [status |-> "MultipleObjectsReturned", obj |-> None]

get_for_object(mgr, owner, kwargs) ==
    get(mgr, generate_object_kwarg_dict(owner, kwargs))

NoKwargs == [object_id |-> None, is_public |-> "any", is_approved |-> "any"]

\* ------------------------------------------------------------ tree assembly
\* The list get_tree fetches: the manager's rows of one content object.
Fetch(mgr, owner) ==
    filter(get_query_set(mgr), [NoKwargs EXCEPT !.object_id = owner])

\* `subnode.parent and subnode.parent.id == node.id`
IsChildOf(subnode, node) == subnode.parent # None /\ subnode.parent = node.id

RECURSIVE dfs(_, _, _)
RECURSIVE dfsFrom(_, _, _, _)

\* dfs's loop, handing its own depth on to the children.
dfsFrom_SameDepth(node, all_nodes, depth, k) ==
    IF k > Len(all_nodes) THEN <<>>
    ELSE (IF IsChildOf(all_nodes[k], node)
          THEN dfs(all_nodes[k], all_nodes, depth)
          ELSE <<>>) \o dfsFrom(node, all_nodes, depth, k + 1)

\* dfs's loop over all_nodes from position k on.
dfsFrom(node, all_nodes, depth, k) ==
    IF k > Len(all_nodes) THEN <<>>
    ELSE (IF IsChildOf(all_nodes[k], node)
          THEN dfs(all_nodes[k], all_nodes, depth + 1)
          ELSE <<>>) \o dfsFrom(node, all_nodes, depth, k + 1)

\* dfs without the recursion into the children.
dfs_NoChildren(node, all_nodes, depth) == <<[id |-> node.id, depth |-> depth]>>

\* dfs, the node put after the subtrees of its children.
dfs_NodeLast(node, all_nodes, depth) ==
    dfsFrom(node, all_nodes, depth, 1) \o <<[id |-> node.id, depth |-> depth]>>

\* dfs: the node annotated with its depth, then the subtrees of its children.
dfs(node, all_nodes, depth) ==
    <<[id |-> node.id, depth |-> depth]>> \o dfsFrom(node, all_nodes, depth, 1)

RECURSIVE treeFrom(_, _)

\* get_tree's loop, a comment whose parent was not fetched taken as a root.
treeFrom_PromoteOrphans(all_nodes, k) ==
    IF k > Len(all_nodes) THEN <<>>
    ELSE (IF all_nodes[k].parent \notin Range(Ids(all_nodes))
          THEN dfs(all_nodes[k], all_nodes, 0)
          ELSE <<>>) \o treeFrom(all_nodes, k + 1)

\* get_tree's loop over children from position k on.
treeFrom(all_nodes, k) ==
    IF k > Len(all_nodes) THEN <<>>
    ELSE (IF all_nodes[k].parent = None
          THEN dfs(all_nodes[k], all_nodes, 0)
          ELSE <<>>) \o treeFrom(all_nodes, k + 1)

get_tree(mgr, owner) == treeFrom(Fetch(mgr, owner), 1)

\* ----------------------------------------------------------- initial state
Init ==
    /\ comments = <<>>
    /\ now = 1
    /\ loc = [w \in Writers |-> NoInstance]
    /\ pc = "idle"
    /\ children = <<>>
    /\ idx = 0
    /\ stack = <<>>
    /\ to_return = <<>>
    /\ depthAttr = <<>>
    /\ result = NoResult

ParentChoices == {None} \cup (1..Len(comments))

\* ----------------------------------------------------------------- actions
\* create_for_object(content_object, **kwargs): construct, save(), insert.
CreateForObject(owner, parent, is_public, is_approved, markup) ==
    /\ pc = "idle"
    /\ comments' = Persist(comments,
                     save(NewInstance(owner, parent, is_public, is_approved, markup), now))
    /\ result' = NoResult
    /\ UNCHANGED <<now, loc, treeVars>>

\* comment.parent = other; comment.save() on a stored comment.
SaveParent(pk, parent) ==
    /\ pc = "idle"
    /\ pk \in 1..Len(comments)
    /\ comments[pk].parent # parent
    /\ comments' = Persist(comments, save([comments[pk] EXCEPT !.parent = parent], now))
    /\ result' = NoResult
    /\ UNCHANGED <<now, loc, treeVars>>

\* manager.get_tree(content_object), as one call.
GetTree(mgr, owner) ==
    /\ pc = "idle"
    /\ result' = [op |-> "get_tree", mgr |-> mgr, owner |-> owner,
                  tree |-> get_tree(mgr, owner)]
    /\ UNCHANGED <<comments, now, loc, treeVars>>

\* ------------------------------------------------- specification: the tree
\* Comments with the default flags, read through the unrestricted manager.
NextTree ==
    \/ \E owner \in Owners, parent \in ParentChoices :
          /\ Len(comments) < MaxComments
          /\ CreateForObject(owner, parent, TRUE, FALSE, PLAINTEXT)
    \/ \E pk \in 1..Len(comments), parent \in ParentChoices : SaveParent(pk, parent)
    \/ \E owner \in Owners : GetTree("objects", owner)

SpecTree == Init /\ [][NextTree]_vars

\* -------------------------------------- specification: the public manager
\* Comments that are public or hidden, read through either manager.
NextPublic ==
    \/ \E owner \in Owners, parent \in ParentChoices, is_public \in BOOLEAN :
          /\ Len(comments) < MaxPublicComments
          /\ CreateForObject(owner, parent, is_public, FALSE, PLAINTEXT)
    \/ \E pk \in 1..Len(comments), parent \in ParentChoices : SaveParent(pk, parent)
    \/ \E mgr \in Managers, owner \in Owners : GetTree(mgr, owner)

SpecPublic == Init /\ [][NextPublic]_vars

\* ------------------------------------------------ writers of one comment
\* What a caller may hand over as markup: unset, zero, the four choices and
\* an integer that is no choice.
MarkupInputs == {MarkupNone, 0, MARKDOWN, TEXTILE, REST, HTML, PLAINTEXT}

\* ThreadedComment(**kwargs): a new instance in the writer's memory.
Construct(w, is_approved, markup) ==
    /\ comments = <<>>
    /\ \A v \in Writers : loc[v] = NoInstance
    /\ loc' = [loc EXCEPT ![w] = NewInstance(1, None, TRUE, is_approved, markup)]
    /\ UNCHANGED <<comments, now, treeVars, result>>

\* objects.get(pk=pk): the stored row as a fresh instance.
Load(w, pk) ==
    /\ pk \in 1..Len(comments)
    /\ loc[w] # comments[pk]
    /\ loc' = [loc EXCEPT ![w] = comments[pk]]
    /\ UNCHANGED <<comments, now, treeVars, result>>

\* instance.is_approved = value
SetApproved(w, value) ==
    /\ loc[w] # NoInstance
    /\ loc[w].is_approved # value
    /\ loc' = [loc EXCEPT ![w].is_approved = value]
    /\ UNCHANGED <<comments, now, treeVars, result>>

\* instance.markup = value
SetMarkup(w, value) ==
    /\ loc[w] # NoInstance
    /\ loc[w].markup # value
    /\ loc' = [loc EXCEPT ![w].markup = value]
    /\ UNCHANGED <<comments, now, treeVars, result>>

\* instance.save(): the normalisation, then the insert or update of the row;
\* an insert gives the instance its primary key.
Save(w) ==
    /\ loc[w] # NoInstance
    /\ comments' = Persist(comments, save(loc[w], now))
    /\ loc' = [loc EXCEPT ![w] =
                 IF loc[w].id = None THEN comments'[Len(comments')]
                 ELSE comments'[loc[w].id]]
    /\ UNCHANGED <<now, treeVars, result>>

\* Time passes: datetime.now() reads later.
Tick ==
    /\ now < MaxTime
    /\ now' = now + 1
    /\ UNCHANGED <<comments, loc, treeVars, result>>

\* ----------------------------------- specification: one writer of a comment
NextSave ==
    \/ \E is_approved \in BOOLEAN, markup \in MarkupInputs : Construct(1, is_approved, markup)
    \/ \E pk \in 1..Len(comments) : Load(1, pk)
    \/ \E value \in BOOLEAN : SetApproved(1, value)
    \/ \E value \in MarkupInputs : SetMarkup(1, value)
    \/ Save(1)
    \/ Tick

SpecSave == Init /\ [][NextSave]_vars

\* ---------------------------------- specification: two writers of a comment
NextRace ==
    \/ \E w \in Writers, is_approved \in BOOLEAN : Construct(w, is_approved, PLAINTEXT)
    \/ \E w \in Writers, pk \in 1..Len(comments) : Load(w, pk)
    \/ \E w \in Writers, value \in BOOLEAN : SetApproved(w, value)
    \/ \E w \in Writers : Save(w)
    \/ Tick

SpecRace == Init /\ [][NextRace]_vars

\* ------------------------------------------------------ queries as actions
FlagKeywords == {"any", "true", "false"}

\* The keywords a caller filters by; the owner is get_for_object's to add.
Kwargs == [object_id : {None}, is_public : FlagKeywords, is_approved : FlagKeywords]

\* manager.filter(**kwargs), evaluated.
Filter(mgr, kwargs) ==
    /\ result' = [op |-> "filter", mgr |-> mgr, kwargs |-> kwargs,
                  rows |-> Ids(filter(get_query_set(mgr), kwargs))]
    /\ UNCHANGED <<comments, now, loc, treeVars>>

\* manager.get_for_object(content_object, **kwargs)
GetForObject(mgr, owner, kwargs) ==
    /\ result' = [op |-> "get_for_object", mgr |-> mgr, owner |-> owner,
                  kwargs |-> kwargs, got |-> get_for_object(mgr, owner, kwargs)]
    /\ UNCHANGED <<comments, now, loc, treeVars>>

\* ------------------------------------------------- specification: queries
NextQuery ==
    \/ \E owner \in Owners, is_public \in BOOLEAN, is_approved \in BOOLEAN :
          /\ Len(comments) < MaxQueryComments
          /\ CreateForObject(owner, None, is_public, is_approved, PLAINTEXT)
    \/ \E mgr \in Managers, kwargs \in Kwargs : Filter(mgr, kwargs)
    \/ \E mgr \in Managers, owner \in Owners, kwargs \in Kwargs :
          GetForObject(mgr, owner, kwargs)

SpecQuery == Init /\ [][NextQuery]_vars

\* -------------------------------------------------- get_tree step by step
Unset == 0 - 1

Top == stack[Len(stack)]

\* A call dfs(node, all_nodes, depth): the interpreter refuses a frame beyond
\* its recursion limit; otherwise `node.depth = depth; to_return = [node,]`.
CallDfs(node, depth) ==
    IF Len(stack) >= RecursionLimit
    THEN /\ pc' = "error"
         /\ UNCHANGED <<children, idx, stack, to_return, depthAttr>>
    ELSE /\ stack' = Append(stack, [node |-> node.id, depth |-> depth, k |-> 1,
                                    acc |-> <<node.id>>])
         /\ depthAttr' = [depthAttr EXCEPT ![node.id] = depth]
         /\ UNCHANGED <<pc, children, idx, to_return>>

\* get_tree up to its loop: the fetch and `to_return = []`.
GetTreeCall(mgr, owner) ==
    /\ pc = "idle"
    /\ pc' = "running"
    /\ children' = Fetch(mgr, owner)
    /\ idx' = 1
    /\ stack' = <<>>
    /\ to_return' = <<>>
    /\ depthAttr' = [k \in Range(Ids(Fetch(mgr, owner))) |-> Unset]
    /\ result' = [op |-> "call", mgr |-> mgr, owner |-> owner]
    /\ UNCHANGED <<comments, now, loc>>

\* get_tree's loop without its test of the parent.
GetTreeLoop_EveryChild ==
    /\ pc = "running" /\ stack = <<>> /\ idx <= Len(children)
    /\ CallDfs(children[idx], 0)
    /\ UNCHANGED <<comments, now, loc, result>>

\* One round of `for child in children: if not child.parent: ...dfs(child, children, 0)`.
GetTreeLoop ==
    /\ pc = "running" /\ stack = <<>> /\ idx <= Len(children)
    /\ IF children[idx].parent = None
       THEN CallDfs(children[idx], 0)
       ELSE /\ idx' = idx + 1
            /\ UNCHANGED <<pc, children, stack, to_return, depthAttr>>
    /\ UNCHANGED <<comments, now, loc, result>>

\* One round of dfs's `for subnode in all_nodes: if ...: ...dfs(subnode, all_nodes, depth+1)`.
DfsLoop ==
    /\ pc = "running" /\ stack # <<>> /\ Top.k <= Len(children)
    /\ IF /\ children[Top.k].parent # None
          /\ children[Top.k].parent = Top.node
       THEN CallDfs(children[Top.k], Top.depth + 1)
       ELSE /\ stack' = [stack EXCEPT ![Len(stack)].k = @ + 1]
            /\ UNCHANGED <<pc, children, idx, to_return, depthAttr>>
    /\ UNCHANGED <<comments, now, loc, result>>

\* dfs's `return to_return`, and the caller's `to_return.extend(...)`.
DfsReturn ==
    /\ pc = "running" /\ stack # <<>> /\ Top.k > Len(children)
    /\ IF Len(stack) = 1
       THEN /\ to_return' = to_return \o Top.acc
            /\ idx' = idx + 1
            /\ stack' = <<>>
       ELSE /\ stack' = [SubSeq(stack, 1, Len(stack) - 1)
                            EXCEPT ![Len(stack) - 1].acc = @ \o Top.acc,
                                   ![Len(stack) - 1].k = @ + 1]
            /\ UNCHANGED <<to_return, idx>>
    /\ UNCHANGED <<comments, now, loc, result, pc, children, depthAttr>>

\* get_tree's `return to_return`: the instances with their depth attribute.
GetTreeReturn ==
    /\ pc = "running" /\ stack = <<>> /\ idx > Len(children)
    /\ result' = [op |-> "get_tree", mgr |-> result.mgr, owner |-> result.owner,
                  tree |-> [i \in 1..Len(to_return) |->
                              [id |-> to_return[i], depth |-> depthAttr[to_return[i]]]]]
    /\ pc' = "idle"
    /\ children' = <<>>
    /\ idx' = 0
    /\ to_return' = <<>>
    /\ depthAttr' = <<>>
    /\ UNCHANGED <<comments, now, loc, stack>>

Walk == GetTreeLoop \/ DfsLoop \/ DfsReturn \/ GetTreeReturn

\* ------------------------------------ specification: get_tree step by step
NextWalk ==
    \/ \E owner \in Owners, parent \in ParentChoices :
          /\ Len(comments) < MaxWalkComments
          /\ CreateForObject(owner, parent, TRUE, FALSE, PLAINTEXT)
    \/ \E pk \in 1..Len(comments), parent \in ParentChoices : SaveParent(pk, parent)
    \/ \E owner \in Owners : GetTreeCall("objects", owner)
    \/ GetTreeLoop
    \/ DfsLoop
    \/ DfsReturn
    \/ GetTreeReturn

SpecWalk == Init /\ [][NextWalk]_vars /\ WF_vars(Walk)

\* ------------------------------------------------------ claims on the tree
IsTree == result.op = "get_tree"

\* A comment the claims call visible: one of its two flags is true.
Visible(row) == row.is_public = TRUE \/ row.is_approved = TRUE

\* Primary keys of the instances get_tree fetched for the recorded call.
Fetched == Range(Ids(Fetch(result.mgr, result.owner)))

OwnerComments(owner) == {k \in 1..Len(comments) : comments[k].object_id = owner}

Positions(tree, k) == {i \in 1..Len(tree) : tree[i].id = k}

RECURSIVE RootedIn(_, _, _)
\* k's chain of parents stays inside S and ends, within n links, at a comment
\* without parent.
RootedIn(S, k, n) ==
    /\ n > 0
    /\ k \in S
    /\ \/ comments[k].parent = None
       \/ RootedIn(S, comments[k].parent, n - 1)

Rooted(S, k) == RootedIn(S, k, Len(comments))

\* No comment reaches itself along parent links.
Acyclic == \A k \in 1..Len(comments) : Rooted(1..Len(comments), k)

RECURSIVE NumAncestors(_, _)
NumAncestors(k, n) ==
    IF comments[k].parent = None \/ n = 0 THEN 0
    ELSE 1 + NumAncestors(comments[k].parent, n - 1)

\* C1 as stated: the tree of the unrestricted manager holds every comment
\* attached to the owner exactly once, whatever the stored comments are.
C1_EveryCommentOnce ==
    (IsTree /\ result.mgr = "objects") =>
        \A k \in OwnerComments(result.owner) :
            Cardinality(Positions(result.tree, k)) = 1

\* C1 amended: the tree of the unrestricted manager holds no comment twice and
\* holds exactly the owner's comments whose chain of parents stays among the
\* owner's comments and ends at a comment without parent.
C1_RootedCommentsOnce ==
    (IsTree /\ result.mgr = "objects") =>
        /\ NoDuplicates(Ids(result.tree))
        /\ Range(Ids(result.tree)) =
             {k \in OwnerComments(result.owner) : Rooted(OwnerComments(result.owner), k)}

C1_Witness ==
    /\ IsTree /\ result.mgr = "objects"
    /\ Len(result.tree) >= 1
    /\ \E k \in OwnerComments(result.owner) :
          Positions(result.tree, k) = {} /\ comments[k].parent = k
    /\ \E k \in OwnerComments(result.owner) :
          /\ Positions(result.tree, k) = {}
          /\ comments[k].parent # None
          /\ comments[comments[k].parent].object_id # result.owner

\* C2: in the tree a comment without parent has depth 0; any other comment
\* comes after its parent, which carries depth one less; depth is the number
\* of ancestors.
C2_DepthIsAncestors ==
    IsTree =>
        \A i \in 1..Len(result.tree) :
            LET c == result.tree[i]
                p == comments[c.id].parent
            IN /\ p = None => c.depth = 0
               /\ p # None =>
                    \E j \in 1..(i - 1) :
                        result.tree[j].id = p /\ result.tree[j].depth = c.depth - 1
               /\ c.depth = NumAncestors(c.id, Len(comments))

C2_Witness ==
    /\ IsTree
    /\ \E i \in 1..Len(result.tree) : result.tree[i].depth = 2
    /\ \E i \in 2..Len(result.tree) : result.tree[i].depth = 0

\* C3: without parent cycles the tree is no longer than the list of the
\* owner's comments, as long exactly when every comment with a parent has it
\* among them, and a comment whose parent is not among them is left out.
C3_LengthAndOrphans ==
    (IsTree /\ Acyclic) =>
        /\ Len(result.tree) <= Cardinality(Fetched)
        /\ Len(result.tree) = Cardinality(Fetched)
             <=> \A k \in Fetched : comments[k].parent \in Fetched \cup {None}
        /\ \A k \in Fetched :
             comments[k].parent \notin Fetched \cup {None}
                => Positions(result.tree, k) = {}

C3_Witness ==
    /\ IsTree /\ Acyclic /\ result.mgr = "objects"
    /\ Len(result.tree) >= 1
    /\ Len(result.tree) < Cardinality(OwnerComments(result.owner))
    /\ \E k \in OwnerComments(result.owner) :
          /\ comments[k].parent # None
          /\ comments[comments[k].parent].object_id # result.owner

\* The reference builder of C7: the comments grouped by parent id in one
\* pass, store order kept inside each group.
GroupByParent(all_nodes) ==
    [p \in {None} \cup Range(Ids(all_nodes)) |->
        SelectSeq(all_nodes, LAMBDA row : row.parent = p)]

RECURSIVE EmitGroup(_, _, _, _)
\* The members of one group from position k on, each followed depth-first by
\* its own group one level deeper.
EmitGroup(groups, p, depth, k) ==
    IF k > Len(groups[p]) THEN <<>>
    ELSE <<[id |-> groups[p][k].id, depth |-> depth]>>
         \o EmitGroup(groups, groups[p][k].id, depth + 1, 1)
         \o EmitGroup(groups, p, depth, k + 1)

ReferenceTree(all_nodes) == EmitGroup(GroupByParent(all_nodes), None, 0, 1)

RECURSIVE IsAncestor(_, _, _)
\* a is reached from k by following at most n parent links (at least one).
IsAncestor(a, k, n) ==
    /\ n > 0
    /\ comments[k].parent # None
    /\ \/ comments[k].parent = a
       \/ IsAncestor(a, comments[k].parent, n - 1)

\* C7: the tree equals the output of the reference builder; the descendants
\* of each comment form one block directly after it; comments with the same
\* parent keep their store order.
C7_EqualsReferenceBuilder ==
    IsTree =>
        LET tree == result.tree
            desc(i) == {j \in 1..Len(tree) :
                           IsAncestor(tree[i].id, tree[j].id, Len(comments))}
        IN /\ tree = ReferenceTree(Fetch(result.mgr, result.owner))
           /\ \A i \in 1..Len(tree) : desc(i) = (i + 1)..(i + Cardinality(desc(i)))
           /\ \A i, j \in 1..Len(tree) :
                (i < j /\ comments[tree[i].id].parent = comments[tree[j].id].parent)
                    => tree[i].id < tree[j].id

\* The scenario of the specification: A, B under A, C, D under B.
C7_Witness ==
    /\ IsTree
    /\ Len(comments) = 4
    /\ [k \in 1..4 |-> comments[k].parent] = <<None, 1, None, 2>>
    /\ result.tree = <<[id |-> 1, depth |-> 0], [id |-> 2, depth |-> 1],
                       [id |-> 4, depth |-> 2], [id |-> 3, depth |-> 0]>>

\* ------------------------------------------- claims on the public manager
RECURSIVE ChainVisible(_, _)
\* k and the comments its parent links lead to, n links far, are visible.
ChainVisible(k, n) ==
    /\ Visible(comments[k])
    /\ \/ comments[k].parent = None
       \/ n = 0
       \/ ChainVisible(comments[k].parent, n - 1)

RECURSIVE FrameAccs(_)
FrameAccs(k) == IF k > Len(stack) THEN <<>> ELSE stack[k].acc \o FrameAccs(k + 1)

Visited == to_return \o FrameAccs(1)

WalkSafe ==
    /\ pc # "error"
    /\ Len(stack) <= Len(children)
    /\ pc = "running" =>
         /\ NoDuplicates(Visited)
         /\ stack # <<>> => comments[stack[1].node].parent = None
         /\ \A i \in 1..Len(Visited) : Rooted(1..Len(comments), Visited[i])
    /\ (pc = "idle" /\ IsTree) => result.tree = get_tree(result.mgr, result.owner)

\* C10: get_tree ends for every configuration of parent links; dfs is started
\* only at comments without parent, is never called twice on a comment and
\* never on a comment of a parent cycle or below one.
C10_WalkTerminates == []WalkSafe /\ (pc = "running" ~> pc = "idle")

C10_Witness ==
    /\ pc = "idle" /\ IsTree
    /\ Len(result.tree) >= 1
    /\ \E a, b \in OwnerComments(result.owner) :
          /\ a # b
          /\ comments[a].parent = b
          /\ comments[b].parent = a

\* ------------------------------------------------------ claims on queries
AllIds == 1..Len(comments)

\* What the query of the recorded call returned, as a set of primary keys.
Returned ==
    IF result.op = "filter" THEN Range(result.rows)
    ELSE IF result.got.status = "ok" THEN {result.got.obj}
    ELSE {}

\* The caller's filter of the recorded call: its keywords, and for
\* get_for_object the content object.
CallerMatches(k) ==
    /\ Matches(comments[k], result.kwargs)
    /\ result.op = "get_for_object" => comments[k].object_id = result.owner

IsPublicQuery == result.op \in {"filter", "get_for_object"} /\ result.mgr = "public"

C5_StampedOnce ==
    [][/\ \A pk \in AllIds :
             comments[pk].date_approved # None
                => comments'[pk].date_approved = comments[pk].date_approved
       /\ \A w \in Writers :
             (Save(w) /\ loc[w].date_approved = None) =>
                comments'[loc'[w].id].date_approved =
                    (IF loc[w].is_approved THEN now ELSE None)]_vars

\* The stamp has outlived a save with is_approved off, and approval is on again.
C5_Witness ==
    /\ Len(comments) = 1
    /\ ~comments[1].is_approved
    /\ comments[1].date_approved # None
    /\ comments[1].date_modified > comments[1].date_approved
    /\ loc[1].is_approved

\* C6 as stated: after a save the stored markup is one of the four choices,
\* whatever it was before, and plaintext when it was unset or falsy before.
C6_StoredMarkupIsChoice ==
    [][\A w \in Writers :
          Save(w) => /\ loc'[w].markup \in MARKUP_CHOICES
                     /\ Falsy(loc[w].markup) => loc'[w].markup = PLAINTEXT]_vars

\* C6 amended: after a save the stored markup is never unset or falsy; it is
\* plaintext when it was unset or falsy before and the value it was otherwise,
\* so it is one of the four choices exactly when it was unset, falsy or a
\* choice before; get_base_data names any other stored value plaintext.
C6_FalsyMarkupBecomesPlaintext ==
    [][\A w \in Writers :
          Save(w) =>
             /\ comments'[loc'[w].id] = loc'[w]
             /\ ~Falsy(loc'[w].markup)
             /\ Falsy(loc[w].markup) => loc'[w].markup = PLAINTEXT
             /\ ~Falsy(loc[w].markup) => loc'[w].markup = loc[w].markup
             /\ loc'[w].markup \in MARKUP_CHOICES
                  <=> (Falsy(loc[w].markup) \/ loc[w].markup \in MARKUP_CHOICES)
             /\ loc'[w].markup \notin MARKUP_CHOICES
                  => MarkupName(loc'[w].markup) = "plaintext"]_vars

C6_Witness ==
    /\ Len(comments) = 1
    /\ comments[1].markup = HTML
    /\ comments[1].date_modified > 1

\* C8: with two writers the stored stamp can be overwritten, and only by the
\* save of a writer whose instance does not carry the stored stamp, that is
\* one loaded before another writer stored it; a writer whose instance has
\* the stored stamp, as a writer alone always has, never changes it.
C8_OverwriteNeedsStaleWriter ==
    [][\A pk \in AllIds :
          (/\ comments[pk].date_approved # None
           /\ comments'[pk].date_approved # comments[pk].date_approved)
             => \E w \in Writers :
                   /\ Save(w)
                   /\ loc[w].id = pk
                   /\ loc[w].date_approved # comments[pk].date_approved]_vars

\* Both writers stamped: the row carries the later stamp, the other writer's
\* instance the earlier one.
C8_Witness ==
    /\ Len(comments) = 1
    /\ \E w \in Writers :
          /\ loc[w].id = 1
          /\ loc[w].date_approved # None
          /\ comments[1].date_approved > loc[w].date_approved

====
